---- MODULE Spec2Model ----
(***************************************************************************)
(* Model of cms/db/ImportFromDict.py: the import_from_dict class methods   *)
(* that rebuild a Contest object graph from its nested-dictionary form.    *)
(*                                                                         *)
(* One import is a run of the program counter pc through the lines of      *)
(* contest_import_from_dict.  Every object that is referenced from another *)
(* object carries an identity `id` (Python object identity); references    *)
(* are ids.  Submissions are the only objects written after construction   *)
(* (user_import_from_dict, line 101), so they live in heap.                *)
(***************************************************************************)
EXTENDS Integers, Sequences, FiniteSets, TLC

(* ---------------------------- bounds ---------------------------------- *)
MaxTasks  == 2   \* longest serialized task sequence
MaxUsers  == 2   \* longest serialized user sequence
MaxSubs   == 2   \* longest submission sequence of one user record
MaxScores == 2   \* longest score sequence of the ranking view record
MaxFiles  == 2   \* longest attachments/managers/files/executables sequence
MaxAnn    == 1   \* longest announcement sequence
NumNames  == 2   \* usernames that user and score records draw from

(* Python's None; object identities start at 1. *)
None == 0

Usernames     == 1..NumNames
FilenameOrder == <<"fa", "fb">>
Filenames     == {FilenameOrder[i] : i \in 1..Len(FilenameOrder)}
\* serialized task indices: one negative, every valid one, one past the end
Indices       == (0 - 1)..MaxTasks

SeqsUpTo(S, n) == UNION {[1..m -> S] : m \in 0..n}

(* ------------------------ serialized records --------------------------- *)
Has(rec, f) == f \in DOMAIN rec

\* the fields a builder reads with data[...], in the order it reads them
TaskFields == <<"attachments", "submission_format", "managers", "testcases">>
UserFields == <<"messages", "questions", "submissions">>
SubmissionFields == <<"files", "executables", "evaluations", "token", "task">>
StageFields == {"tasks", "users", "announcements", "ranking_view"}

\* a sequence of File/Executable/Attachment/Manager records; the body tells
\* two records with the same filename apart
KeyedSeqs ==
    {[i \in 1..Len(fs) |-> [filename |-> fs[i], body |-> i]] :
        fs \in SeqsUpTo(Filenames, MaxFiles)}

TaskRec(name, att, man) ==
    [name |-> name, attachments |-> att,
     submission_format |-> <<[filename |-> "fa"]>>,
     managers |-> man, testcases |-> <<[num |-> 0]>>]

SubRec(ts, idx, usr, files, execs, token) ==
    [timestamp |-> ts, task |-> idx, user |-> usr, files |-> files,
     executables |-> execs, evaluations |-> <<[outcome |-> 1]>>,
     token |-> token]

UserRec(username, subs) ==
    [username |-> username, messages |-> <<[text |-> "m"]>>,
     questions |-> <<>>, submissions |-> subs]

ScoreRec(idx, username) == [task |-> idx, user |-> username, score |-> 10]

ContestRec(ts, us, anns, scs) ==
    [name |-> "contest", tasks |-> ts, users |-> us, announcements |-> anns,
     ranking_view |-> [timestamp |-> 7, scores |-> scs]]

OneFile  == <<[filename |-> "fa", body |-> 1]>>
BaseTask(i) == TaskRec(i, OneFile, <<>>)
BaseTaskSeq(n) == [i \in 1..n |-> BaseTask(i)]
BaseSub(j, idx) == SubRec(j, idx, None, OneFile, <<>>, <<>>)
AnnSeq(n) == [i \in 1..n |-> [text |-> "a"]]

\* a user record whose submissions all name the first task
PlainUser(username, nsubs) ==
    UserRec(username, [j \in 1..nsubs |-> BaseSub(j, 0)])

\* Inputs that vary the submissions' task indices: users with zero or one
\* submission of the first task, then a user with any submission sequence.
InputsUsers ==
    {ContestRec(BaseTaskSeq(n), <<>>, <<>>, <<>>) : n \in 0..MaxTasks}
    \cup
    {ContestRec(BaseTaskSeq(n),
                [k \in 1..(Len(c) + 1) |->
                    IF k <= Len(c) THEN PlainUser(k, c[k])
                    ELSE UserRec(k, [j \in 1..Len(f) |-> BaseSub(j, f[j])])],
                <<>>, <<>>) :
        n \in 0..MaxTasks,
        c \in SeqsUpTo({0, 1}, MaxUsers - 1),
        f \in SeqsUpTo(Indices, MaxSubs)}

\* Inputs that vary the usernames and the score records: scores of the
\* first task and the first username, then any score record.
InputsScores ==
    {ContestRec(BaseTaskSeq(n),
                [k \in 1..Len(u) |-> PlainUser(u[k], 1)],
                <<>>, sc) :
        n \in 1..MaxTasks,
        u \in SeqsUpTo(Usernames, MaxUsers),
        sc \in {<<>>} \cup
               {[i \in 1..m |-> IF i < m THEN ScoreRec(0, 1) ELSE last] :
                   m \in 1..MaxScores,
                   last \in {ScoreRec(i, nm) : i \in Indices,
                                               nm \in Usernames}}}

\* Inputs that vary the filename-keyed sequences, tokens and announcements.
InputsFiles ==
    {ContestRec(<<TaskRec(1, att, man)>>, <<PlainUser(1, 1)>>,
                AnnSeq(a), <<ScoreRec(0, 1)>>) :
        att \in KeyedSeqs, man \in KeyedSeqs, a \in 0..MaxAnn}
    \cup
    {ContestRec(<<BaseTask(1)>>,
                <<UserRec(1, <<SubRec(1, 0, usr, fl, ex, tok)>>)>>,
                <<>>, <<>>) :
        fl \in KeyedSeqs, ex \in KeyedSeqs,
        tok \in {<<>>, <<[timestamp |-> 3]>>}, usr \in {None, 1}}

\* the record rec without its field f
Drop(rec, f) == [x \in DOMAIN rec \ {f} |-> rec[x]]

Fieldnames(order) == {order[m] : m \in DOMAIN order}

MalformedBase ==
    ContestRec(BaseTaskSeq(2), <<PlainUser(1, 1), PlainUser(2, 1)>>,
               AnnSeq(1), <<ScoreRec(0, 1), ScoreRec(1, 2)>>)

\* Inputs with one field left out of one record: of the contest, of the
\* ranking view, or of the first or second task, user, submission or score.
InputsMalformed ==
    {Drop(MalformedBase, f) : f \in StageFields}
    \cup {[MalformedBase EXCEPT !.ranking_view = Drop(@, "scores")]}
    \cup {[MalformedBase EXCEPT !.tasks[q] = Drop(@, f)] :
             q \in 1..2, f \in Fieldnames(TaskFields)}
    \cup {[MalformedBase EXCEPT !.users[q] = Drop(@, f)] :
             q \in 1..2, f \in Fieldnames(UserFields)}
    \cup {[MalformedBase EXCEPT !.users[q].submissions[1] = Drop(@, f)] :
             q \in 1..2, f \in Fieldnames(SubmissionFields) \cup {"user"}}
    \cup {[MalformedBase EXCEPT !.ranking_view.scores[q] = Drop(@, f)] :
             q \in 1..2, f \in {"task", "user"}}

\* The contest of one task and one user whose owned sequences are all empty.
InputsMinimal ==
    {ContestRec(<<[name |-> 1, attachments |-> <<>>,
                   submission_format |-> <<>>, managers |-> <<>>,
                   testcases |-> <<>>]>>,
                <<[username |-> 1, messages |-> <<>>, questions |-> <<>>,
                   submissions |-> <<>>]>>,
                <<>>, <<>>)}

Inputs ==
    InputsUsers \cup InputsScores \cup InputsFiles \cup InputsMalformed
        \cup InputsMinimal

(* ------------------------- Python primitives --------------------------- *)
\* seq[i] on a list of length n: valid for -n <= i < n, IndexError otherwise
PyInRange(n, i) == (0 - n) <= i /\ i < n
\* the 1-based position that the Python index i selects
PyPos(n, i) == IF i >= 0 THEN i + 1 ELSE n + i + 1

\* dict([(k1, v1), (k2, v2), ...]): a later pair replaces an earlier one
\* with the same key
PyDict(keys, vals) ==
    [k \in {keys[i] : i \in DOMAIN keys} |->
        vals[CHOOSE i \in DOMAIN keys :
                /\ keys[i] = k
                /\ \A j \in DOMAIN keys : keys[j] = k => j <= i]]

(* ------------------------------ builders ------------------------------- *)
\* cls(**data): the entity holds the record's fields
basic_import_from_dict(cls, rec) == [cls |-> cls, fields |-> rec]

LeafList(cls, recs) ==
    [i \in DOMAIN recs |-> basic_import_from_dict(cls, recs[i])]

\* [X.import_from_dict(d) for d in recs] followed by
\* dict([(x.filename, x) for x in ...])
FilenameDict(cls, recs) ==
    PyDict([i \in DOMAIN recs |-> LeafList(cls, recs)[i].fields.filename],
           LeafList(cls, recs))

task_import_from_dict(rec, id) ==
    [id |-> id, cls |-> "Task", name |-> rec.name,
     attachments |-> FilenameDict("Attachment", rec.attachments),
     submission_format |->
         LeafList("SubmissionFormatElement", rec.submission_format),
     managers |-> FilenameDict("Manager", rec.managers),
     testcases |-> LeafList("Testcase", rec.testcases)]

\* data['task'] = tasks[data['task']] raises IndexError
SubmissionRaises(rec, ts) == ~PyInRange(Len(ts), rec.task)

\* the task looked up by its name instead of by its position
ResolveTask_byName(ts, idx) ==
    ts[CHOOSE i \in DOMAIN ts : ts[i].name = PyPos(Len(ts), idx)]

\* tasks[data['task'] - 1]: the index taken as 1-based
ResolveTask_shifted(ts, idx) ==
    ts[((PyPos(Len(ts), idx) + Len(ts) - 2) % Len(ts)) + 1]

\* the task a serialized index resolves to
ResolveTask(ts, idx) == ts[PyPos(Len(ts), idx)]

\* a Submission built with the user value of its record (line 132 left out)
submission_import_from_dict_keepUser(rec, ts, id) ==
    [id |-> id, cls |-> "Submission", timestamp |-> rec.timestamp,
     files |-> FilenameDict("File", rec.files),
     executables |-> FilenameDict("Executable", rec.executables),
     evaluations |-> LeafList("Evaluation", rec.evaluations),
     token |-> LeafList("Token", rec.token),
     task |-> ResolveTask(ts, rec.task).id,
     user |-> IF "user" \in DOMAIN rec THEN rec.user ELSE None]

submission_import_from_dict(rec, ts, id) ==
    [id |-> id, cls |-> "Submission", timestamp |-> rec.timestamp,
     files |-> FilenameDict("File", rec.files),
     executables |-> FilenameDict("Executable", rec.executables),
     evaluations |-> LeafList("Evaluation", rec.evaluations),
     token |-> LeafList("Token", rec.token),
     task |-> ResolveTask(ts, rec.task).id,
     user |-> None]

\* get_user: the first user of the sequence with that username
HasUser(us, username) == \E i \in DOMAIN us : us[i].username = username
\* a lookup that returns the first user whatever the username
get_user_first(us, username) == us[1]
get_user(us, username) ==
    us[CHOOSE i \in DOMAIN us :
          /\ us[i].username = username
          /\ \A j \in DOMAIN us : us[j].username = username => i <= j]

score_import_from_dict(rec, ts, us, id) ==
    [id |-> id, cls |-> "Score", score |-> rec.score,
     task |-> ResolveTask(ts, rec.task).id,
     user |-> get_user(us, rec.user).id]

\* Score.rankingview_keyfunc: a score is keyed by (its task, its user)
rankingview_keyfunc(score) == <<score.task, score.user>>

\* User(**data) with the submissions the comprehension of line 98 built
UserObject(rec, subIds, id) ==
    [id |-> id, cls |-> "User", username |-> rec.username,
     messages |-> LeafList("Message", rec.messages),
     questions |-> LeafList("Question", rec.questions),
     submissions |-> subIds]

(* ------------------------------- state --------------------------------- *)
VARIABLES
    data,          \* the serialized contest record being imported
    pc,            \* the line of contest_import_from_dict being executed
    err,           \* the exception that aborted the import, or "none"
    nextId,        \* identity of the next object constructed
    tasks,         \* Task objects built by the comprehension of line 52
    heap,          \* Submission objects by identity
    cur,           \* the running user_import_from_dict call
    users,         \* User objects built by the comprehension of line 53
    announcements, \* Announcement objects of line 54
    scores,        \* Score objects built by the comprehension of line 64
    ranking_view,  \* <<>> or <<the RankingView>>
    contest,       \* <<>> or <<the Contest returned to the caller>>
    mode,          \* "import", or what the second import of a run checks
    first,         \* <<>> or <<shape of the graph of the first import>>
    perm,          \* the task permutation of a "permuted" second import
    written        \* the slots of the caller's dictionary the import changed

vars == <<data, pc, err, nextId, tasks, heap, cur, users, announcements,
          scores, ranking_view, contest, mode, first, perm, written>>

IndexError == "IndexError"   \* the spec's BrokenReference
KeyError   == "KeyError"     \* the spec's UserNotFound and MalformedRecord
TypeError  == "TypeError"    \* a built object used as a serialized record

EmptyHeap == [i \in {} |-> None]
\* no user_import_from_dict call has built anything yet
IdleUser == [begun |-> FALSE, subs |-> <<>>, obj |-> <<>>, patched |-> 0]

Init ==
    /\ data \in Inputs
    /\ pc = "tasks"
    /\ err = "none"
    /\ nextId = 1
    /\ tasks = <<>>
    /\ heap = EmptyHeap
    /\ cur = IdleUser
    /\ users = <<>>
    /\ announcements = <<>>
    /\ scores = <<>>
    /\ ranking_view = <<>>
    /\ contest = <<>>
    /\ mode = "import"
    /\ first = <<>>
    /\ perm = <<>>
    /\ written = {}

\* an exception that is recorded while the import goes on to the ranking view
Raise_swallowed(kind) ==
    /\ pc' = "ranking_view"
    /\ err' = kind

\* an exception leaves the call stack of the import: nothing is returned
Raise(kind) ==
    /\ pc' = "error"
    /\ err' = kind

(* ----------------------- the caller's dictionary ----------------------- *)
\* position of the first field of order that rec lacks, Len(order) + 1 if
\* it has them all
FirstMissing(rec, order) ==
    IF \E m \in DOMAIN order : ~Has(rec, order[m])
    THEN CHOOSE m \in DOMAIN order :
            /\ ~Has(rec, order[m])
            /\ \A x \in DOMAIN order : ~Has(rec, order[x]) => m <= x
    ELSE Len(order) + 1

\* a key of the input tree: field f of the contest record (i = j = 0), of
\* the i-th record of a top-level sequence, or of the j-th submission of
\* the i-th user
Slot(top, i, j, f) == [top |-> top, i |-> i, j |-> j, field |-> f]
StageSlot(f) == Slot(f, 0, 0, f)

\* data[f] = <built value> replaces the serialized value by a different
\* one: a dictionary or an object always, a list unless it is empty
SlotChanges(rec, f) ==
    IF f \in {"attachments", "managers", "files", "executables", "task"}
    THEN TRUE
    ELSE rec[f] # <<>>

\* the slots changed by the assignments to the first n fields of order
Assigned(top, i, j, rec, order, n) ==
    {Slot(top, i, j, order[m]) :
        m \in {x \in 1..n : SlotChanges(rec, order[x])}}

\* line 132: data['user'] = None
UserSlot(k, j, rec) ==
    IF Has(rec, "user") /\ rec.user = None THEN {}
    ELSE {Slot("users", k, j, "user")}

\* a second import of the same dictionary finds built objects in slot
Stale(slot) == mode = "again" /\ slot \in written

\* a missing contest field taken as empty: the import goes on to the ranking
\* view
ReadMissingField_defaulted ==
    /\ pc \in {"tasks", "users", "announcements"}
    /\ ~Has(data, pc)
    /\ pc' = "ranking_view"
    /\ UNCHANGED <<data, err, nextId, tasks, heap, cur, users, announcements,
                   scores, ranking_view, contest, mode, first, perm, written>>

\* lines 52-55 and 64: data['tasks'], data['users'], data['announcements'],
\* data['ranking_view'] or the ranking view's data['scores'] is not there
ReadMissingField ==
    /\ \/ pc \in StageFields /\ ~Has(data, pc)
       \/ /\ pc = "ranking_view"
          /\ Has(data, "ranking_view")
          /\ ~Stale(StageSlot("ranking_view"))
          /\ ~Has(data.ranking_view, "scores")
    /\ Raise(KeyError)
    /\ UNCHANGED <<data, nextId, tasks, heap, cur, users, announcements,
                   scores, ranking_view, contest, mode, first, perm, written>>

\* lines 52-55 run on a dictionary whose slot holds built objects: a Task,
\* User or RankingView is subscripted, an Announcement is unpacked with **
StaleRead ==
    /\ pc \in StageFields
    /\ Stale(StageSlot(pc))
    /\ Raise(TypeError)
    /\ UNCHANGED <<data, nextId, tasks, heap, cur, users, announcements,
                   scores, ranking_view, contest, mode, first, perm, written>>

(* ------------------------- line 52: the tasks -------------------------- *)
BuildTask ==
    /\ pc = "tasks"
    /\ Has(data, "tasks")
    /\ ~Stale(StageSlot("tasks"))
    /\ Len(tasks) < Len(data.tasks)
    /\ LET i == Len(tasks) + 1
           rec == data.tasks[i]
           m == FirstMissing(rec, TaskFields)
       IN  IF m <= Len(TaskFields)
           THEN /\ Raise(KeyError)
                /\ written' = written \cup
                       Assigned("tasks", i, 0, rec, TaskFields, m - 1)
                /\ UNCHANGED <<nextId, tasks>>
           ELSE /\ tasks' = Append(tasks, task_import_from_dict(rec, nextId))
                /\ nextId' = nextId + 1
                /\ written' = written \cup
                       Assigned("tasks", i, 0, rec, TaskFields,
                                Len(TaskFields))
                /\ UNCHANGED <<pc, err>>
    /\ UNCHANGED <<data, heap, cur, users, announcements, scores,
                   ranking_view, contest, mode, first, perm>>

\* the users stage entered while the task comprehension is still running
TasksDone_early ==
    /\ pc = "tasks"
    /\ pc' = "users"
    /\ UNCHANGED <<data, err, nextId, tasks, heap, cur, users, announcements,
                   scores, ranking_view, contest, mode, first, perm, written>>

TasksDone ==
    /\ pc = "tasks"
    /\ Has(data, "tasks")
    /\ Len(tasks) = Len(data.tasks)
    /\ pc' = "users"
    /\ written' = written \cup
                  (IF tasks = <<>> THEN {} ELSE {StageSlot("tasks")})
    /\ UNCHANGED <<data, err, nextId, tasks, heap, cur, users, announcements,
                   scores, ranking_view, contest, mode, first, perm>>

(* ------------------------- line 53: the users -------------------------- *)
UserData == data.users[Len(users) + 1]

\* lines 96-98: the messages, the questions and the read of
\* data['submissions']
BeginUser ==
    /\ pc = "users"
    /\ Has(data, "users")
    /\ ~Stale(StageSlot("users"))
    /\ Len(users) < Len(data.users)
    /\ ~cur.begun
    /\ LET m == FirstMissing(UserData, UserFields) IN
       IF m <= Len(UserFields)
       THEN /\ Raise(KeyError)
            /\ written' = written \cup
                   Assigned("users", Len(users) + 1, 0, UserData,
                            UserFields, m - 1)
            /\ UNCHANGED cur
       ELSE /\ cur' = [cur EXCEPT !.begun = TRUE]
            /\ written' = written \cup
                   Assigned("users", Len(users) + 1, 0, UserData,
                            UserFields, 2)
            /\ UNCHANGED <<pc, err>>
    /\ UNCHANGED <<data, nextId, tasks, heap, users, announcements, scores,
                   ranking_view, contest, mode, first, perm>>

\* line 98: one Submission.import_from_dict(submission_data, tasks=tasks)
BuildSubmission ==
    /\ pc = "users"
    /\ cur.begun
    /\ cur.obj = <<>>
    /\ Len(cur.subs) < Len(UserData.submissions)
    /\ LET k == Len(users) + 1
           j == Len(cur.subs) + 1
           rec == UserData.submissions[j]
           m == FirstMissing(rec, SubmissionFields)
       IN  IF m <= Len(SubmissionFields)
           THEN /\ Raise(KeyError)
                /\ written' = written \cup
                       Assigned("users", k, j, rec, SubmissionFields, m - 1)
                /\ UNCHANGED <<nextId, heap, cur>>
           ELSE IF SubmissionRaises(rec, tasks)
           THEN /\ Raise(IndexError)
                /\ written' = written \cup
                       Assigned("users", k, j, rec, SubmissionFields, 4)
                /\ UNCHANGED <<nextId, heap, cur>>
           ELSE /\ heap' = (nextId :> submission_import_from_dict(rec, tasks,
                                                                   nextId))
                           @@ heap
                /\ cur' = [cur EXCEPT !.subs = Append(@, nextId)]
                /\ nextId' = nextId + 1
                /\ written' = written
                       \cup Assigned("users", k, j, rec, SubmissionFields, 5)
                       \cup UserSlot(k, j, rec)
                /\ UNCHANGED <<pc, err>>
    /\ UNCHANGED <<data, tasks, users, announcements, scores, ranking_view,
                   contest, mode, first, perm>>

\* lines 98-99: data['submissions'] = [...] and obj = cls(**data)
ConstructUser ==
    /\ pc = "users"
    /\ cur.begun
    /\ cur.obj = <<>>
    /\ Len(cur.subs) = Len(UserData.submissions)
    /\ cur' = [cur EXCEPT !.obj = <<UserObject(UserData, cur.subs, nextId)>>]
    /\ nextId' = nextId + 1
    /\ written' = written \cup
           (IF cur.subs = <<>> THEN {}
            ELSE {Slot("users", Len(users) + 1, 0, "submissions")})
    /\ UNCHANGED <<data, pc, err, tasks, heap, users, announcements, scores,
                   ranking_view, contest, mode, first, perm>>

\* line 101 left out
SetUser_skipped(h, sid, uid) == h

\* line 101 run over every submission built so far
SetUser_all(h, sid, uid) == [x \in DOMAIN h |-> [h[x] EXCEPT !.user = uid]]

\* the write of line 101
SetUser(h, sid, uid) == [h EXCEPT ![sid].user = uid]

\* lines 100-101: one iteration of the loop over obj.submissions
PatchSubmission ==
    /\ pc = "users"
    /\ cur.obj # <<>>
    /\ cur.patched < Len(cur.obj[1].submissions)
    /\ heap' = SetUser(heap, cur.obj[1].submissions[cur.patched + 1],
                       cur.obj[1].id)
    /\ cur' = [cur EXCEPT !.patched = @ + 1]
    /\ UNCHANGED <<data, pc, err, nextId, tasks, users, announcements,
                   scores, ranking_view, contest, mode, first, perm, written>>

\* line 102: return obj
ReturnUser ==
    /\ pc = "users"
    /\ cur.obj # <<>>
    /\ cur.patched = Len(cur.obj[1].submissions)
    /\ users' = Append(users, cur.obj[1])
    /\ cur' = IdleUser
    /\ UNCHANGED <<data, pc, err, nextId, tasks, heap, announcements, scores,
                   ranking_view, contest, mode, first, perm, written>>

UsersDone ==
    /\ pc = "users"
    /\ Has(data, "users")
    /\ Len(users) = Len(data.users)
    /\ pc' = "announcements"
    /\ written' = written \cup
                  (IF users = <<>> THEN {} ELSE {StageSlot("users")})
    /\ UNCHANGED <<data, err, nextId, tasks, heap, cur, users, announcements,
                   scores, ranking_view, contest, mode, first, perm>>

(* --------------------- line 54: the announcements ---------------------- *)
BuildAnnouncements ==
    /\ pc = "announcements"
    /\ Has(data, "announcements")
    /\ ~Stale(StageSlot("announcements"))
    /\ announcements' = LeafList("Announcement", data.announcements)
    /\ pc' = "ranking_view"
    /\ written' = written \cup
           (IF data.announcements = <<>> THEN {}
            ELSE {StageSlot("announcements")})
    /\ UNCHANGED <<data, err, nextId, tasks, heap, cur, users, scores,
                   ranking_view, contest, mode, first, perm>>

(* --------------------- line 55: the ranking view ----------------------- *)
ScoreData == data.ranking_view.scores[Len(scores) + 1]

\* the ranking view record can be read and has its scores
ScoresReadable ==
    /\ Has(data, "ranking_view")
    /\ ~Stale(StageSlot("ranking_view"))
    /\ Has(data.ranking_view, "scores")

\* line 64: one Score.import_from_dict(score_data, tasks=tasks, users=users)
BuildScore ==
    /\ pc = "ranking_view"
    /\ ScoresReadable
    /\ Len(scores) < Len(data.ranking_view.scores)
    /\ LET i == Len(scores) + 1
           taskSlot == {Slot("ranking_view", i, 0, "task")}
           userSlot == {Slot("ranking_view", i, 0, "user")}
       IN  IF ~Has(ScoreData, "task")
           THEN /\ Raise(KeyError)
                /\ UNCHANGED <<nextId, scores, written>>
           ELSE IF ~PyInRange(Len(tasks), ScoreData.task)
           THEN /\ Raise(IndexError)
                /\ UNCHANGED <<nextId, scores, written>>
           ELSE IF ~Has(ScoreData, "user")
           THEN /\ Raise(KeyError)
                /\ written' = written \cup taskSlot
                /\ UNCHANGED <<nextId, scores>>
           ELSE IF ~HasUser(users, ScoreData.user)
           THEN /\ Raise(KeyError)
                /\ written' = written \cup taskSlot
                /\ UNCHANGED <<nextId, scores>>
           ELSE /\ scores' = Append(scores,
                                    score_import_from_dict(ScoreData, tasks,
                                                           users, nextId))
                /\ nextId' = nextId + 1
                /\ written' = written \cup taskSlot \cup userSlot
                /\ UNCHANGED <<pc, err>>
    /\ UNCHANGED <<data, tasks, heap, cur, users, announcements,
                   ranking_view, contest, mode, first, perm>>

\* line 65: dict([(Score.rankingview_keyfunc(score), score) for score in ...])
ScoreDict(scs) ==
    PyDict([i \in DOMAIN scs |-> rankingview_keyfunc(scs[i])], scs)

\* lines 65-66: the score dictionary and cls(**data); line 55 stores it
BuildRankingView ==
    /\ pc = "ranking_view"
    /\ ScoresReadable
    /\ Len(scores) = Len(data.ranking_view.scores)
    /\ ranking_view' = <<[id |-> nextId, cls |-> "RankingView",
                          timestamp |-> data.ranking_view.timestamp,
                          scores |-> ScoreDict(scores)]>>
    /\ nextId' = nextId + 1
    /\ pc' = "contest"
    /\ written' = written \cup {Slot("ranking_view", 0, 0, "scores"),
                                StageSlot("ranking_view")}
    /\ UNCHANGED <<data, err, tasks, heap, cur, users, announcements, scores,
                   contest, mode, first, perm>>

(* ------------------------ line 56: the contest ------------------------- *)
\* a Contest built without its users
ContestObject_noUsers(id, name, ts, us, anns, rv) ==
    [id |-> id, cls |-> "Contest", name |-> name, tasks |-> ts,
     users |-> <<>>, announcements |-> anns, ranking_view |-> rv]

ContestObject(id, name, ts, us, anns, rv) ==
    [id |-> id, cls |-> "Contest", name |-> name, tasks |-> ts,
     users |-> us, announcements |-> anns, ranking_view |-> rv]

BuildContest ==
    /\ pc = "contest"
    /\ contest' = <<ContestObject(nextId, data.name, tasks, users,
                                  announcements, ranking_view[1])>>
    /\ nextId' = nextId + 1
    /\ pc' = "done"
    /\ UNCHANGED <<data, err, tasks, heap, cur, users, announcements, scores,
                   ranking_view, mode, first, perm, written>>

(* --------------------- the graph up to identity ------------------------ *)
\* position of the object with identity id in a sequence of objects, 0 if
\* the sequence does not hold it
Pos(objs, id) ==
    IF \E i \in DOMAIN objs : objs[i].id = id
    THEN CHOOSE i \in DOMAIN objs : objs[i].id = id
    ELSE 0

TaskShape(t) ==
    [name |-> t.name, attachments |-> t.attachments,
     submission_format |-> t.submission_format, managers |-> t.managers,
     testcases |-> t.testcases]

SubmissionShape(s, ts, us) ==
    [timestamp |-> s.timestamp, files |-> s.files,
     executables |-> s.executables, evaluations |-> s.evaluations,
     token |-> s.token, task |-> Pos(ts, s.task), user |-> Pos(us, s.user)]

UserShape(u, h, ts, us) ==
    [username |-> u.username, messages |-> u.messages,
     questions |-> u.questions,
     submissions |-> [j \in DOMAIN u.submissions |->
                         SubmissionShape(h[u.submissions[j]], ts, us)]]

ScoreShape(sc, ts, us) ==
    [score |-> sc.score, task |-> Pos(ts, sc.task), user |-> Pos(us, sc.user)]

\* field values, owned sequences and maps, references as positions
Shape(c, h) ==
    [name |-> c.name,
     tasks |-> [i \in DOMAIN c.tasks |-> TaskShape(c.tasks[i])],
     users |-> [k \in DOMAIN c.users |->
                   UserShape(c.users[k], h, c.tasks, c.users)],
     announcements |-> c.announcements,
     timestamp |-> c.ranking_view.timestamp,
     scores |-> {[key |-> <<Pos(c.tasks, k[1]), Pos(c.users, k[2])>>,
                  value |-> ScoreShape(c.ranking_view.scores[k],
                                       c.tasks, c.users)] :
                    k \in DOMAIN c.ranking_view.scores}]

(* ----------------------------- export ---------------------------------- *)
Fields(leaves) == [i \in DOMAIN leaves |-> leaves[i].fields]

\* the values of a filename-keyed dictionary as a sequence of records
FileRecords(d) ==
    Fields([i \in 1..Len(SelectSeq(FilenameOrder,
                                   LAMBDA f : f \in DOMAIN d)) |->
               d[SelectSeq(FilenameOrder, LAMBDA f : f \in DOMAIN d)[i]]])

KeyLess(a, b) == a[1] < b[1] \/ (a[1] = b[1] /\ a[2] < b[2])

\* the values of the score dictionary as a sequence
ScoreValues(d) ==
    LET ks == CHOOSE q \in [1..Cardinality(DOMAIN d) -> DOMAIN d] :
                  \A i, j \in DOMAIN q : i < j => KeyLess(q[i], q[j])
    IN  [i \in DOMAIN ks |-> d[ks[i]]]

\* the nested-dictionary form of a graph: a task reference is the task's
\* position in the contest's task sequence, a user reference the username
export_to_dict(c, h) ==
    [name |-> c.name,
     tasks |-> [i \in DOMAIN c.tasks |->
         [name |-> c.tasks[i].name,
          attachments |-> FileRecords(c.tasks[i].attachments),
          submission_format |-> Fields(c.tasks[i].submission_format),
          managers |-> FileRecords(c.tasks[i].managers),
          testcases |-> Fields(c.tasks[i].testcases)]],
     users |-> [k \in DOMAIN c.users |->
         [username |-> c.users[k].username,
          messages |-> Fields(c.users[k].messages),
          questions |-> Fields(c.users[k].questions),
          submissions |-> [j \in DOMAIN c.users[k].submissions |->
              LET s == h[c.users[k].submissions[j]] IN
              [timestamp |-> s.timestamp,
               task |-> Pos(c.tasks, s.task) - 1,
               user |-> IF Pos(c.users, s.user) = 0 THEN None
                        ELSE c.users[Pos(c.users, s.user)].username,
               files |-> FileRecords(s.files),
               executables |-> FileRecords(s.executables),
               evaluations |-> Fields(s.evaluations),
               token |-> Fields(s.token)]]]],
     announcements |-> Fields(c.announcements),
     ranking_view |->
         [timestamp |-> c.ranking_view.timestamp,
          scores |-> [i \in DOMAIN ScoreValues(c.ranking_view.scores) |->
              LET sc == ScoreValues(c.ranking_view.scores)[i] IN
              [score |-> sc.score,
               task |-> Pos(c.tasks, sc.task) - 1,
               user |-> c.users[Pos(c.users, sc.user)].username]]]]

(* ------------------- permuting the task sequence ----------------------- *)
Perms(n) == {p \in [1..n -> 1..n] : \A i, j \in 1..n : p[i] = p[j] => i = j}

\* every serialized task index is a position of the task sequence
ValidIndices(d) ==
    /\ \A k \in DOMAIN d.users : \A j \in DOMAIN d.users[k].submissions :
          d.users[k].submissions[j].task \in 0..(Len(d.tasks) - 1)
    /\ \A i \in DOMAIN d.ranking_view.scores :
          d.ranking_view.scores[i].task \in 0..(Len(d.tasks) - 1)

\* the task at position i moves to position p[i]; indices follow
PermuteRecord(d, p) ==
    [d EXCEPT
       !.tasks = [j \in DOMAIN d.tasks |->
                     d.tasks[CHOOSE i \in DOMAIN p : p[i] = j]],
       !.users = [k \in DOMAIN d.users |->
                     [d.users[k] EXCEPT !.submissions =
                         [j \in DOMAIN @ |->
                             [@[j] EXCEPT !.task = p[@ + 1] - 1]]]],
       !.ranking_view.scores =
           [i \in DOMAIN @ |-> [@[i] EXCEPT !.task = p[@ + 1] - 1]]]

\* the shape sh with its tasks moved by p and its task references following
PermuteShape(sh, p) ==
    [sh EXCEPT
       !.tasks = [j \in DOMAIN sh.tasks |->
                     sh.tasks[CHOOSE i \in DOMAIN p : p[i] = j]],
       !.users = [k \in DOMAIN sh.users |->
                     [sh.users[k] EXCEPT !.submissions =
                         [j \in DOMAIN @ |->
                             [@[j] EXCEPT !.task = p[@]]]]],
       !.scores = {[key |-> <<p[x.key[1]], x.key[2]>>,
                    value |-> [x.value EXCEPT !.task = p[@]]] :
                     x \in sh.scores}]

\* a second import of the record d, after the first returned a Contest
Restart(d, m, p) ==
    /\ pc = "done"
    /\ mode = "import"
    /\ first' = <<Shape(contest[1], heap)>>
    /\ data' = d
    /\ mode' = m
    /\ perm' = p
    /\ pc' = "tasks"
    /\ tasks' = <<>>
    /\ heap' = EmptyHeap
    /\ cur' = IdleUser
    /\ users' = <<>>
    /\ announcements' = <<>>
    /\ scores' = <<>>
    /\ ranking_view' = <<>>
    /\ contest' = <<>>
    /\ UNCHANGED <<err, nextId>>

\* import the same record with its tasks permuted, from a fresh dictionary
ImportPermuted ==
    /\ pc = "done"
    /\ ValidIndices(data)
    /\ \E p \in Perms(Len(data.tasks)) :
          Restart(PermuteRecord(data, p), "permuted", p)
    /\ written' = {}

\* import the serialized form of the graph just built
ImportExported ==
    /\ Restart(export_to_dict(contest[1], heap), "exported", <<>>)
    /\ written' = {}

\* pass the dictionary of the finished import to the importer once more
ImportAgain ==
    /\ Restart(data, "again", <<>>)
    /\ UNCHANGED written

Next ==
    \/ ReadMissingField
    \/ StaleRead
    \/ BuildTask
    \/ TasksDone
    \/ BeginUser
    \/ BuildSubmission
    \/ ConstructUser
    \/ PatchSubmission
    \/ ReturnUser
    \/ UsersDone
    \/ BuildAnnouncements
    \/ BuildScore
    \/ BuildRankingView
    \/ BuildContest
    \/ ImportPermuted
    \/ ImportExported
    \/ ImportAgain

Spec == Init /\ [][Next]_vars

(* ============================== claims ================================= *)
\* the import has returned its Contest
Built == pc = "done"
Graph == contest[1]

\* C1: after a successful import, every submission in a user's submission
\* sequence has that very user object as its user, and none is unset.
C1_BackReferenceClosure ==
    Built =>
        \A k \in DOMAIN Graph.users :
            \A j \in DOMAIN Graph.users[k].submissions :
                /\ heap[Graph.users[k].submissions[j]].user = Graph.users[k].id
                /\ heap[Graph.users[k].submissions[j]].user # None

\* a finished import with two users of equal field values, each owning a
\* submission
C1_Witness ==
    /\ Built
    /\ Len(Graph.users) = 2
    /\ Graph.users[1].username = Graph.users[2].username
    /\ Len(Graph.users[1].submissions) = 1
    /\ Len(Graph.users[2].submissions) = 1

OutOfBounds(idx) == idx < 0 \/ idx >= Len(data.tasks)

\* C2: a submission or score record whose task index is out of bounds
\* (index < 0 or index >= number of tasks) is never resolved to a task:
\* no submission or score is ever built from such a record.
C2_OutOfBoundsNeverResolved ==
    /\ \A k \in DOMAIN users : \A j \in DOMAIN users[k].submissions :
          ~OutOfBounds(data.users[k].submissions[j].task)
    /\ \A j \in DOMAIN cur.subs :
          ~OutOfBounds(UserData.submissions[j].task)
    /\ \A i \in DOMAIN scores :
          ~OutOfBounds(data.ranking_view.scores[i].task)

DistinctFilenames(recs) ==
    \A i, j \in DOMAIN recs : recs[i].filename = recs[j].filename => i = j

\* C3: two records with the same filename in one attachments, managers,
\* files or executables sequence make the import fail: no task or
\* submission is ever built from such a sequence.
C3_DuplicateFilenameFails ==
    /\ \A i \in DOMAIN tasks :
          /\ DistinctFilenames(data.tasks[i].attachments)
          /\ DistinctFilenames(data.tasks[i].managers)
    /\ \A k \in DOMAIN users : \A j \in DOMAIN users[k].submissions :
          /\ DistinctFilenames(data.users[k].submissions[j].files)
          /\ DistinctFilenames(data.users[k].submissions[j].executables)
    /\ \A j \in DOMAIN cur.subs :
          /\ DistinctFilenames(UserData.submissions[j].files)
          /\ DistinctFilenames(UserData.submissions[j].executables)

\* C4: after a successful import every score record's score is the entry
\* of the ranking view's map under (its task, its user), and no two score
\* records share a key.
C4_ScoreAddressability ==
    Built =>
        /\ \A i \in DOMAIN data.ranking_view.scores :
              /\ rankingview_keyfunc(scores[i])
                     \in DOMAIN Graph.ranking_view.scores
              /\ Graph.ranking_view.scores[rankingview_keyfunc(scores[i])].id
                     = scores[i].id
        /\ \A i, j \in DOMAIN scores :
              rankingview_keyfunc(scores[i]) = rankingview_keyfunc(scores[j])
                  => i = j

\* the score builder is about to look up a username no built user has
LookupMisses ==
    /\ pc = "ranking_view"
    /\ ScoresReadable
    /\ Len(scores) < Len(data.ranking_view.scores)
    /\ Has(ScoreData, "task")
    /\ PyInRange(Len(tasks), ScoreData.task)
    /\ Has(ScoreData, "user")
    /\ ~HasUser(users, ScoreData.user)

\* C5: the username lookup of a score record that matches no built user
\* aborts the import with KeyError (UserNotFound), an import holding such
\* a record never returns, and every score built references a user whose
\* username is the record's user field.
C5_UserNotFound ==
    /\ [][LookupMisses => (pc' = "error" /\ err' = KeyError)]_vars
    /\ [](Built => \A i \in DOMAIN data.ranking_view.scores :
                      HasUser(Graph.users, data.ranking_view.scores[i].user))
    /\ [](\A i \in DOMAIN scores :
            /\ Pos(users, scores[i].user) # 0
            /\ users[Pos(users, scores[i].user)].username
                   = data.ranking_view.scores[i].user)

\* the import was aborted by the lookup of a username that, among two
\* built users, none has
C5_Witness ==
    /\ pc = "error"
    /\ err = KeyError
    /\ Len(users) = 2
    /\ ScoresReadable
    /\ Len(scores) < Len(data.ranking_view.scores)
    /\ Has(ScoreData, "user")
    /\ ~HasUser(users, ScoreData.user)

StageNo(p) ==
    CASE p = "tasks" -> 1
      [] p = "users" -> 2
      [] p = "announcements" -> 3
      [] p = "ranking_view" -> 4
      [] p = "contest" -> 5
      [] p = "done" -> 6
      [] OTHER -> 7

AllPatched == \A sid \in DOMAIN heap : heap[sid].user # None

\* C6: the stages run in the order tasks, users, announcements, ranking
\* view, contest, each after the previous one has completed: no user or
\* submission exists before every task is built, no score before every user
\* is built and patched and the announcements are built, and the Contest
\* only after all four stages.
C6_StageOrder ==
    /\ [][(pc # "done" /\ pc' # pc /\ pc' # "error")
              => StageNo(pc') = StageNo(pc) + 1]_vars
    /\ []((users # <<>> \/ cur # IdleUser \/ DOMAIN heap # {})
              => Len(tasks) = Len(data.tasks))
    /\ []((scores # <<>> \/ ranking_view # <<>>)
              => /\ Len(users) = Len(data.users)
                 /\ cur = IdleUser
                 /\ AllPatched
                 /\ Len(announcements) = Len(data.announcements))
    /\ [](contest # <<>>
              => /\ Len(tasks) = Len(data.tasks)
                 /\ Len(users) = Len(data.users)
                 /\ Len(announcements) = Len(data.announcements)
                 /\ Len(scores) = Len(data.ranking_view.scores)
                 /\ ranking_view # <<>>)

\* a score has been built after a task, a user with a patched
\* submission and an announcement
C6_Witness ==
    /\ scores # <<>>
    /\ Len(tasks) >= 1
    /\ DOMAIN heap # {}
    /\ announcements # <<>>
    /\ pc = "ranking_view"

\* every owned sequence of the returned Contest is as long as its record's
Complete ==
    /\ Len(Graph.tasks) = Len(data.tasks)
    /\ Len(Graph.users) = Len(data.users)
    /\ \A k \in DOMAIN Graph.users :
          Len(Graph.users[k].submissions) = Len(data.users[k].submissions)
    /\ Len(Graph.announcements) = Len(data.announcements)
    /\ AllPatched

\* C7: an import either returns a complete Contest or aborts with an error
\* and returns nothing; after a failure no later step of the import runs.
C7_AllOrNothing ==
    /\ [][pc = "error" => UNCHANGED vars]_vars
    /\ [](pc = "error" => (contest = <<>> /\ err \in {IndexError, KeyError, TypeError}))
    /\ [](contest # <<>> <=> pc = "done")
    /\ [](Built => (err = "none" /\ Complete))

\* the import was aborted inside the second user's submissions, after the
\* tasks, a user and a submission had been built
C7_Witness ==
    /\ pc = "error"
    /\ err = IndexError
    /\ Len(tasks) = 2
    /\ Len(users) = 1
    /\ Len(cur.subs) = 1
    /\ contest = <<>>

\* C8: after a successful import a submission or score whose record had
\* task = i references the task built from the i-th task record, a score
\* whose record had user = name references a user of the contest with that
\* username, and the referenced objects are members of the contest's own
\* sequences.
C8_ReferencesByPosition ==
    Built =>
        /\ \A k \in DOMAIN Graph.users :
              \A j \in DOMAIN Graph.users[k].submissions :
                  /\ data.users[k].submissions[j].task + 1
                         \in DOMAIN Graph.tasks
                  /\ heap[Graph.users[k].submissions[j]].task
                         = Graph.tasks[data.users[k].submissions[j].task
                                           + 1].id
        /\ \A i \in DOMAIN scores :
              /\ data.ranking_view.scores[i].task + 1 \in DOMAIN Graph.tasks
              /\ scores[i].task
                     = Graph.tasks[data.ranking_view.scores[i].task + 1].id
              /\ Pos(Graph.users, scores[i].user) # 0
              /\ Graph.users[Pos(Graph.users, scores[i].user)].username
                     = data.ranking_view.scores[i].user

\* C9: importing a valid record with its tasks permuted and the task
\* indices rewritten succeeds and gives the graph of the original import
\* with its tasks permuted: every submission and score references the task
\* built from the same task record as before.
C9_PermutationIsomorphic ==
    /\ mode = "permuted" => pc # "error"
    /\ (mode = "permuted" /\ Built)
           => Shape(Graph, heap) = PermuteShape(first[1], perm)

\* two tasks were swapped under a submission and a score
C9_Witness ==
    /\ mode = "permuted"
    /\ Built
    /\ perm = <<2, 1>>
    /\ DOMAIN heap # {}
    /\ scores # <<>>

Lacks(rec, order) == FirstMissing(rec, order) <= Len(order)

\* some record of the tree d lacks a field its builder reads
Malformed(d) ==
    IF \E f \in StageFields : ~Has(d, f) THEN TRUE
    ELSE IF ~Has(d.ranking_view, "scores") THEN TRUE
    ELSE \/ \E i \in DOMAIN d.tasks : Lacks(d.tasks[i], TaskFields)
         \/ \E k \in DOMAIN d.users :
               IF Lacks(d.users[k], UserFields) THEN TRUE
               ELSE \E j \in DOMAIN d.users[k].submissions :
                       Lacks(d.users[k].submissions[j], SubmissionFields)
         \/ \E i \in DOMAIN d.ranking_view.scores :
               Lacks(d.ranking_view.scores[i], <<"task", "user">>)

\* the builder about to run reads a field that its record lacks
MissingAhead ==
    \/ pc \in StageFields /\ ~Has(data, pc)
    \/ /\ pc = "tasks" /\ Has(data, "tasks") /\ mode # "again"
       /\ Len(tasks) < Len(data.tasks)
       /\ Lacks(data.tasks[Len(tasks) + 1], TaskFields)
    \/ /\ pc = "users" /\ Has(data, "users") /\ mode # "again"
       /\ Len(users) < Len(data.users)
       /\ IF ~cur.begun THEN Lacks(UserData, UserFields)
          ELSE /\ cur.obj = <<>>
               /\ Len(cur.subs) < Len(UserData.submissions)
               /\ Lacks(UserData.submissions[Len(cur.subs) + 1],
                        SubmissionFields)
    \/ /\ pc = "ranking_view" /\ Has(data, "ranking_view") /\ mode # "again"
       /\ IF ~Has(data.ranking_view, "scores") THEN TRUE
          ELSE /\ Len(scores) < Len(data.ranking_view.scores)
               /\ \/ ~Has(ScoreData, "task")
                  \/ /\ PyInRange(Len(tasks), ScoreData.task)
                     /\ ~Has(ScoreData, "user")

\* C11: a record at any depth that lacks a field its builder reads makes
\* the builder raise KeyError (MalformedRecord), which aborts the import:
\* no Contest is returned for such a tree and no task, user, submission or
\* score is built from a record with a missing field.
C11_MalformedRecord ==
    /\ [][MissingAhead => (pc' = "error" /\ err' = KeyError)]_vars
    /\ [](Malformed(data) => (pc # "done" /\ contest = <<>>))
    /\ [](/\ \A i \in DOMAIN tasks : ~Lacks(data.tasks[i], TaskFields)
          /\ \A k \in DOMAIN users :
                /\ ~Lacks(data.users[k], UserFields)
                /\ \A j \in DOMAIN users[k].submissions :
                      ~Lacks(data.users[k].submissions[j], SubmissionFields)
          /\ \A j \in DOMAIN cur.subs :
                ~Lacks(UserData.submissions[j], SubmissionFields)
          /\ \A i \in DOMAIN scores :
                ~Lacks(data.ranking_view.scores[i], <<"task", "user">>))

\* the import was aborted by the second user's submission record, which
\* has no token field, after the tasks and the first user had been built
C11_Witness ==
    /\ pc = "error"
    /\ err = KeyError
    /\ Len(tasks) = 2
    /\ Len(users) = 1
    /\ cur.begun
    /\ ~Has(UserData.submissions[1], "token")
    /\ contest = <<>>

\* one task, one user without submissions, no announcements, no scores
IsMinimal(d) ==
    /\ ~Malformed(d)
    /\ Len(d.tasks) = 1
    /\ Len(d.users) = 1
    /\ d.users[1].submissions = <<>>
    /\ d.announcements = <<>>
    /\ d.ranking_view.scores = <<>>

\* C12: the import of a minimal contest record (read from a serialized
\* dictionary) never fails and returns a Contest with exactly one Task, one
\* User with an empty submission sequence, no announcements and an empty
\* score map.
C12_MinimalContest ==
    (IsMinimal(data) /\ mode # "again") =>
        /\ pc # "error"
        /\ Built =>
              /\ Len(Graph.tasks) = 1
              /\ Len(Graph.users) = 1
              /\ Graph.users[1].submissions = <<>>
              /\ Graph.announcements = <<>>
              /\ DOMAIN Graph.ranking_view.scores = {}

\* the minimal contest whose task and user own nothing at all was imported
C12_Witness ==
    /\ Built
    /\ mode = "import"
    /\ IsMinimal(data)
    /\ data.tasks[1].attachments = <<>>
    /\ data.users[1].messages = <<>>

\* the objects of the user whose builder is running
Owns(u, sid) == \E x \in DOMAIN u.submissions : u.submissions[x] = sid

\* C13: during an import the task sequence is not changed once the users
\* stage has begun, the user sequence, its users and their submissions are
\* not changed once the ranking view stage has begun, and the only change
\* to an object already built is the user builder setting user on a
\* submission of the user it has just constructed.
C13_ContextsReadOnly ==
    [][pc # "done" =>
        /\ pc \in {"users", "announcements", "ranking_view", "contest"}
              => tasks' = tasks
        /\ pc \in {"ranking_view", "contest"}
              => (users' = users /\ heap' = heap)
        /\ \A i \in DOMAIN tasks :
              i \in DOMAIN tasks' /\ tasks'[i] = tasks[i]
        /\ \A k \in DOMAIN users :
              k \in DOMAIN users' /\ users'[k] = users[k]
        /\ \A i \in DOMAIN scores :
              i \in DOMAIN scores' /\ scores'[i] = scores[i]
        /\ (cur.obj # <<>> /\ cur'.obj # <<>>) => cur'.obj = cur.obj
        /\ announcements # <<>> => announcements' = announcements
        /\ ranking_view # <<>> => ranking_view' = ranking_view
        /\ \A sid \in DOMAIN heap :
              /\ sid \in DOMAIN heap'
              /\ \/ heap'[sid] = heap[sid]
                 \/ /\ cur.obj # <<>>
                    /\ Owns(cur.obj[1], sid)
                    /\ heap'[sid] = [heap[sid] EXCEPT !.user = cur.obj[1].id]
      ]_vars

\* a score has been built from two tasks and two users that each own a
\* patched submission
C13_Witness ==
    /\ pc = "ranking_view"
    /\ scores # <<>>
    /\ Len(tasks) = 2
    /\ Len(users) = 2
    /\ \A k \in 1..2 :
          /\ Len(users[k].submissions) = 1
          /\ heap[users[k].submissions[1]].user = users[k].id

\* C14: a submission is constructed with user unset whatever its record's
\* user field holds; user changes only once, from unset to the owning user
\* and only after that user is constructed, and never holds anything but
\* unset or the owning user.
C14_UserWrittenOnce ==
    /\ [][pc # "done" =>
            \A sid \in DOMAIN heap' :
                IF sid \notin DOMAIN heap THEN heap'[sid].user = None
                ELSE \/ heap'[sid].user = heap[sid].user
                     \/ /\ heap[sid].user = None
                        /\ cur.obj # <<>>
                        /\ Owns(cur.obj[1], sid)
                        /\ heap'[sid].user = cur.obj[1].id]_vars
    /\ [](\A sid \in DOMAIN heap :
            \/ heap[sid].user = None
            \/ \E k \in DOMAIN users :
                  users[k].id = heap[sid].user /\ Owns(users[k], sid)
            \/ /\ cur.obj # <<>>
               /\ cur.obj[1].id = heap[sid].user
               /\ Owns(cur.obj[1], sid))

\* a submission whose record carried a user value was built and patched
C14_Witness ==
    /\ Built
    /\ Len(Graph.users) >= 1
    /\ Len(Graph.users[1].submissions) >= 1
    /\ Has(data.users[1].submissions[1], "user")
    /\ data.users[1].submissions[1].user # None
    /\ heap[Graph.users[1].submissions[1]].user = Graph.users[1].id

\* a second import of the same tree ends as the first did
SameOutcomeAgain ==
    (mode = "again" /\ pc \in {"done", "error"})
        => (pc = "done" /\ Shape(Graph, heap) = first[1])

\* C15: when an import has returned or aborted, no slot of the input tree
\* holds a different value than before, and importing the same tree once
\* more returns a Contest structurally equal to the first.
C15_InputUnchanged ==
    /\ pc \in {"done", "error"} => written = {}
    /\ SameOutcomeAgain
====
